---- MODULE Spec2Model ----
(***************************************************************************)
(* A model of the Drago tone-mapping operator, src/src/operators/drago.h.  *)
(*                                                                         *)
(* The operator's state is its `parameters` map.  A call of process, graph *)
(* or of the fragment shader has a frame (image, exposure, the locals read *)
(* from the map, the loop position, the destination pointer, the progress  *)
(* sink) that exists from the call to its return.                          *)
(*                                                                         *)
(* Numbers.  The tone curve is computed in decimal fixed point with three  *)
(* fractional digits (1.0 is Scale); log and pow are computed by the       *)
(* digit-by-digit algorithms below, accurate to about one unit.  The       *)
(* progress sink is an IEEE single: its values are kept exactly, as        *)
(* multiples of 2^-29, and every addition and division rounds to 24        *)
(* significant bits, to nearest, ties to even.                             *)
(***************************************************************************)
EXTENDS Integers, Sequences, FiniteSets, TLC

VARIABLES parameters, pc, image, exposure, loc, i, j, dst, writes, color,
          progress, delta, arg, ret, texel, out_color, interleaved

vars == <<parameters, pc, image, exposure, loc, i, j, dst, writes, color,
          progress, delta, arg, ret, texel, out_color, interleaved>>

frame == <<image, exposure, loc, i, j, dst, writes, color, progress, delta,
           arg, ret, texel, out_color, interleaved>>

(***************************************************************************)
(* Bounds of the model.                                                    *)
(***************************************************************************)
MaxWidth == 5
MaxHeight == 2
MaxInterleaved == 1

(***************************************************************************)
(* Fixed-point arithmetic for the tone curve.                              *)
(***************************************************************************)
Scale == 10 * 10 * 10

RDiv(n, d) == (2 * n + d) \div (2 * d)

Mul(a, b) == RDiv(a * b, Scale)

Div(a, b) == IF b < 0 THEN RDiv((0 - a) * Scale, 0 - b) ELSE RDiv(a * Scale, b)

QOne == 2^14

FracBits == 3 * 4

RECURSIVE Log2Frac(_, _, _)
Log2Frac(m, k, acc) ==
    IF k = 0 THEN acc
    ELSE LET sq == (m * m) \div QOne
         IN  IF sq >= 2 * QOne THEN Log2Frac(sq \div 2, k - 1, 2 * acc + 1)
             ELSE Log2Frac(sq, k - 1, 2 * acc)

NegInfinity == 0 - 2^30

\* log2 of the mantissas 1.000 .. 1.999
Log2Mantissa ==
    [m \in Scale..(2 * Scale - 1) |->
        RDiv(Log2Frac(RDiv(m * QOne, Scale), FracBits, 0) * Scale, 2^FracBits)]

RECURSIVE Log2Norm(_, _)
Log2Norm(x, n) ==
    IF x >= 2 * Scale THEN Log2Norm(x \div 2, n + 1)
    ELSE IF x < Scale THEN Log2Norm(2 * x, n - 1)
    ELSE n * Scale + Log2Mantissa[x]

Log2(x) == IF x <= 0 THEN NegInfinity ELSE Log2Norm(x, 0)

\* std::log / GLSL log
Log(x) == IF x <= 0 THEN NegInfinity ELSE Mul(Log2(x), 693)

\* std::log10; the shader writes it as log(x)/log(10.0)
Log10(x) == Div(Log(x), Log(10 * Scale))

Exp2Frac(f) ==
    LET h5 == 1333
        h4 == 9618 + (h5 * f) \div Scale
        h3 == 55504 + (h4 * f) \div Scale
        h2 == 240227 + (h3 * f) \div Scale
        h1 == 693147 + (h2 * f) \div Scale
    IN  Scale * Scale + (h1 * f) \div Scale

\* 2^f of the fractions 0.000 .. 0.999, with six fractional digits
Exp2Table == [f \in 0..(Scale - 1) |-> Exp2Frac(f)]

Exp2(y) ==
    LET n == y \div Scale
        f == y - n * Scale
        m == Exp2Table[f]
    IN  IF n >= 0 THEN (m * 2^n) \div Scale ELSE RDiv(m, Scale * 2^(0 - n))

\* std::pow / GLSL pow, for a base >= 0
Pow(a, y) ==
    IF a = 0 THEN (IF y = 0 THEN Scale ELSE 0)
    ELSE Exp2(Mul(y, Log2(a)))

clamp(x, lo, hi) == IF x < lo THEN lo ELSE IF x > hi THEN hi ELSE x

(***************************************************************************)
(* IEEE single precision for the progress sink, in units of 2^-29.         *)
(***************************************************************************)
F32One == 2^29

RECURSIVE F32Quantum(_, _)
F32Quantum(x, q) == IF x < 2^24 * q THEN q ELSE F32Quantum(x, 2 * q)

F32Round(x) ==
    LET q == F32Quantum(x, 1)
        lo == (x \div q) * q
        r == x - lo
    IN  IF 2 * r < q THEN lo
        ELSE IF 2 * r > q THEN lo + q
        ELSE IF (lo \div q) % 2 = 0 THEN lo ELSE lo + q

F32Add(x, y) == F32Round(x + y)

RECURSIVE F32Shift(_, _, _)
F32Shift(k, n, s) == IF k * 2^s >= n THEN s ELSE F32Shift(k, n, s + 1)

\* the single nearest to k/n, for 1 <= k <= n < 64
F32Div(k, n) ==
    IF k = n THEN F32One
    ELSE LET s == F32Shift(k, n, 0)
             m == (2 * k * 2^(23 + s) + n) \div (2 * n)
         IN  m * 2^(6 - s)

(***************************************************************************)
(* Parameter (tonemap.h): value, range, the uniform's name; the free-text  *)
(* description carries no behaviour and is left out.                       *)
(***************************************************************************)
Parameter(value, minValue, maxValue, shortLabel) ==
    [value |-> value, minValue |-> minValue, maxValue |-> maxValue,
     shortLabel |-> shortLabel, constant |-> FALSE]

ComputedParameter(value, shortLabel) ==
    [value |-> value, minValue |-> 0, maxValue |-> 0,
     shortLabel |-> shortLabel, constant |-> TRUE]

\* m[k] = v of a std::map: inserts the key or overwrites its entry
Assign(m, k, v) == [x \in DOMAIN m \cup {k} |-> IF x = k THEN v ELSE m[x]]

(***************************************************************************)
(* Images, as the image provider hands them out: a size, the two           *)
(* statistics and the pixels.                                              *)
(***************************************************************************)
Palette ==
    << <<100, 100, 100>>, <<2000, 2000, 2000>>, <<0, 0, 0>>,
       <<500, 2000, 12000>>, <<10000, 10000, 10000>> >>

Looks ==
    << [logAvg |-> 100, maxLum |-> 10000, first |-> 0],
       [logAvg |-> 500, maxLum |-> 2000, first |-> 1] >>

Images ==
    [size : (1..MaxWidth) \X (1..MaxHeight), look : 1..Len(Looks)]

NoImage == [size |-> <<0, 0>>, look |-> 0]

getSize(img) == img.size
getLogAverageLuminance(img) == Looks[img.look].logAvg
getMaximumLuminance(img) == Looks[img.look].maxLum
ref(img, row, col) ==
    Palette[((row * img.size[1] + col + Looks[img.look].first) % Len(Palette)) + 1]

Exposures == {Scale, 2 * Scale}

GraphValues == {0, 100, 1000, 10000}

(***************************************************************************)
(* DragoOperator::DragoOperator.  The constructor of the base class leaves *)
(* `parameters` empty; the five bounded parameters are inserted here.      *)
(***************************************************************************)
DragoOperator ==
    LET p0 == << >>
        p1 == Assign(p0, "Gamma", Parameter(2200, 0, 10 * Scale, "gamma"))
        p2 == Assign(p1, "slope", Parameter(4500, 0, 10 * Scale, "slope"))
        p3 == Assign(p2, "start", Parameter(18, 0, 2 * Scale, "start"))
        p4 == Assign(p3, "Ldmax", Parameter(100 * Scale, 0, 200 * Scale, "Ldmax"))
        p5 == Assign(p4, "b", Parameter(850, 0, Scale, "b"))
    IN  p5

\* the uniforms the fragment shader declares
ShaderUniforms ==
    {"source", "exposure", "gamma", "Ldmax", "Lwa", "Lwmax", "b", "slope", "start"}

Keys == {"Gamma", "slope", "start", "Ldmax", "b", "Lwa", "Lwmax"}

NoLocals == [k \in {} |-> 0]

NoColor == <<0, 0, 0>>

Init ==
    /\ parameters = DragoOperator
    /\ pc = "idle"
    /\ image = NoImage
    /\ exposure = 0
    /\ loc = NoLocals
    /\ i = 0
    /\ j = 0
    /\ dst = 0
    /\ writes = << >>
    /\ color = NoColor
    /\ progress = 0
    /\ delta = 0
    /\ arg = 0
    /\ ret = 0
    /\ texel = NoColor
    /\ out_color = NoColor
    /\ interleaved = 0

(***************************************************************************)
(* DragoOperator::map, in its two parts: the logarithmic compression       *)
(* (c1 * c2) and the gamma correction of the compressed value.             *)
(***************************************************************************)
compress(v, e, Ldmax, Lwa, Lwmax, b) ==
    LET LwaP == Div(Mul(e, Lwa), Pow(Scale + b - 850, 5 * Scale))
        LwmaxP == Div(Mul(e, Lwmax), LwaP)
        value == Div(Mul(e, v), LwaP)
        exponent == Div(Log(b), Log(500))
        c1 == Div(Mul(10, Ldmax), Log10(Scale + LwmaxP))
        c2 == Div(Log(Scale + value),
                  Log(2 * Scale + Mul(8 * Scale, Pow(Div(value, LwmaxP), exponent))))
    IN  Mul(c1, c2)

\* mutant: the branch test written with < instead of <=
mapGammaStrict(value, gamma, start, slope) ==
    IF value < start THEN Mul(slope, value)
    ELSE Pow(Mul(1099, value), Div(900, gamma)) - 99

mapGamma(value, gamma, start, slope) ==
    IF value <= start THEN Mul(slope, value)
    ELSE Pow(Mul(1099, value), Div(900, gamma)) - 99

map(v, e, gamma, Ldmax, Lwa, Lwmax, b, start, slope) ==
    mapGamma(compress(v, e, Ldmax, Lwa, Lwmax, b), gamma, start, slope)

(***************************************************************************)
(* The fragment shader.                                                    *)
(***************************************************************************)
clampedValue(c) == [n \in 1..3 |-> clamp(c[n], 0, Scale)]

gammaCorrect(v, gamma, start, slope) ==
    IF v <= start THEN Mul(slope, v)
    ELSE Pow(Mul(1099, v), Div(900, gamma)) - 99

main(source, e, gamma, Ldmax, Lwa, Lwmax, b, slope, start) ==
    LET LwaP == Div(Mul(e, Lwa), Pow(Scale + b - 850, 5 * Scale))
        LwmaxP == Div(Mul(e, Lwmax), LwaP)
        color0 == [n \in 1..3 |-> Div(Mul(e, source[n]), LwaP)]
        exponent == Div(Log(b), Log(500))
        c1 == Div(Mul(10, Ldmax), Div(Log(Scale + LwmaxP), Log(10 * Scale)))
        c2 == [n \in 1..3 |->
                 Div(Log(color0[n] + Scale),
                     Log(2 * Scale
                         + Mul(8 * Scale, Pow(Div(color0[n], LwmaxP), exponent))))]
        color1 == [n \in 1..3 |-> Mul(c1, c2[n])]
        color2 == clampedValue(color1)
    IN  [n \in 1..3 |-> gammaCorrect(color2[n], gamma, start, slope)]

\* the host binds each parameter's value to the uniform named by its label
Bound == {parameters[k].shortLabel : k \in DOMAIN parameters}

Uniform(name) ==
    parameters[CHOOSE k \in DOMAIN parameters : parameters[k].shortLabel = name].value

(***************************************************************************)
(* DragoOperator::setParameters                                            *)
(***************************************************************************)
\* mutant: the statistics are added to the entries already there
setParametersAccumulate(img) ==
    parameters' =
        Assign(Assign(parameters, "Lwa",
                      ComputedParameter(
                          getLogAverageLuminance(img)
                            + (IF "Lwa" \in DOMAIN parameters
                               THEN parameters["Lwa"].value ELSE 0), "Lwa")),
               "Lwmax",
               ComputedParameter(
                   getMaximumLuminance(img)
                     + (IF "Lwmax" \in DOMAIN parameters
                        THEN parameters["Lwmax"].value ELSE 0), "Lwmax"))

setParameters(img) ==
    parameters' =
        Assign(Assign(parameters, "Lwa",
                      ComputedParameter(getLogAverageLuminance(img), "Lwa")),
               "Lwmax", ComputedParameter(getMaximumLuminance(img), "Lwmax"))

SetParameters ==
    /\ pc = "idle"
    /\ \E img \in Images : setParameters(img)
    /\ UNCHANGED <<pc, frame>>

(***************************************************************************)
(* A parameter edit from the host's editing interface: the value of a     *)
(* bounded parameter, clamped to its range.                                *)
(***************************************************************************)
EditInputs ==
    [Gamma |-> {2200, 1000}, slope |-> {4500, 12 * Scale}, start |-> {18, Scale},
     Ldmax |-> {100 * Scale, 250 * Scale}, b |-> {850, 500}]

editValue(k, v) ==
    parameters' =
        [parameters EXCEPT
            ![k].value = clamp(v, parameters[k].minValue, parameters[k].maxValue)]

Editable == {k \in DOMAIN parameters : ~parameters[k].constant}

EditValue ==
    /\ pc = "idle"
    /\ \E k \in Editable : \E v \in EditInputs[k] : editValue(k, v)
    /\ UNCHANGED <<pc, frame>>

(***************************************************************************)
(* DragoOperator::process                                                  *)
(***************************************************************************)
\* parameters.at(k) throws std::out_of_range for a key the map does not hold
HasAll(ps) == Keys \subseteq DOMAIN ps

\* the seven reads before the loop
readLocals(ps) ==
    [gamma |-> ps["Gamma"].value, Ldmax |-> ps["Ldmax"].value,
     Lwa |-> ps["Lwa"].value, Lwmax |-> ps["Lwmax"].value, b |-> ps["b"].value,
     start |-> ps["start"].value, slope |-> ps["slope"].value]

\* mutant: the parameters are read from the map again for every pixel
mapPixelReread(c, e, l) ==
    [n \in 1..3 |->
        map(c[n], e, parameters["Gamma"].value, parameters["Ldmax"].value,
            parameters["Lwa"].value, parameters["Lwmax"].value, parameters["b"].value,
            parameters["start"].value, parameters["slope"].value)]

\* colorR, colorG, colorB of one pixel, from the locals
mapPixel(c, e, l) ==
    [n \in 1..3 |->
        map(c[n], e, l.gamma, l.Ldmax, l.Lwa, l.Lwmax, l.b, l.start, l.slope)]

\* mutant: the cast rounds to nearest
quantizeRound(x) == (clamp(255 * x, 0, 255 * Scale) + 500) \div Scale

\* (uint8_t) clamp(255.f * x, 0.f, 255.f)
quantize(x) == clamp(255 * x, 0, 255 * Scale) \div Scale

\* dst[0], dst[1], dst[2] = ...; dst += 3
store(w, d, c) ==
    w \o << [off |-> d, val |-> quantize(c[1])],
            [off |-> d + 1, val |-> quantize(c[2])],
            [off |-> d + 2, val |-> quantize(c[3])] >>

\* mutant: the pointer advances by two bytes
nextDstShort(d) == d + 2

nextDst(d) == d + 3

\* mutant: the step is one over the width
progressDeltaWidth(img) == F32Div(1, getSize(img)[1])

\* float delta = 1.f / (size.x() * size.y())
progressDelta(img) == F32Div(1, getSize(img)[1] * getSize(img)[2])

ProcessBegin ==
    /\ pc = "idle"
    /\ \E img \in Images : \E e \in Exposures :
         /\ image' = img
         /\ exposure' = e
         /\ delta' = progressDelta(img)
    /\ progress' = 0
    /\ IF HasAll(parameters)
       THEN /\ loc' = readLocals(parameters)
            /\ pc' = "pixel"
       ELSE /\ loc' = NoLocals
            /\ pc' = "process_thrown"
    /\ i' = 0
    /\ j' = 0
    /\ dst' = 0
    /\ writes' = << >>
    /\ UNCHANGED <<parameters, color, arg, ret, texel, out_color, interleaved>>

\* lines 89-96 for the pixel (i, j)
ProcessPixel ==
    /\ pc = "pixel"
    /\ i < getSize(image)[2]
    /\ j < getSize(image)[1]
    /\ color' = mapPixel(ref(image, i, j), exposure, loc)
    /\ writes' = store(writes, dst, color')
    /\ dst' = nextDst(dst)
    /\ pc' = "progress"
    /\ UNCHANGED <<parameters, image, exposure, loc, i, j, progress, delta, arg,
                   ret, texel, out_color, interleaved>>

\* line 97, then ++j and the two loop tests
ProcessProgress ==
    /\ pc = "progress"
    /\ progress' = F32Add(progress, delta)
    /\ IF j + 1 < getSize(image)[1]
       THEN /\ j' = j + 1
            /\ i' = i
            /\ pc' = "pixel"
       ELSE /\ j' = 0
            /\ i' = i + 1
            /\ pc' = IF i + 1 < getSize(image)[2] THEN "pixel" ELSE "processed"
    /\ UNCHANGED <<parameters, image, exposure, loc, dst, writes, color, delta,
                   arg, ret, texel, out_color, interleaved>>

(***************************************************************************)
(* DragoOperator::graph                                                    *)
(***************************************************************************)
graph(ps, value) ==
    LET l == readLocals(ps)
    IN  map(value, Scale, l.gamma, l.Ldmax, l.Lwa, l.Lwmax, l.b, l.start, l.slope)

Graph ==
    /\ pc = "idle"
    /\ \E v \in GraphValues : arg' = v
    /\ IF HasAll(parameters)
       THEN /\ ret' = graph(parameters, arg')
            /\ pc' = "graphed"
       ELSE /\ ret' = 0
            /\ pc' = "graph_thrown"
    /\ UNCHANGED <<parameters, image, exposure, loc, i, j, dst, writes, color,
                   progress, delta, texel, out_color, interleaved>>

(***************************************************************************)
(* One fragment of a draw with the operator's shader, once the host has    *)
(* bound every uniform.                                                    *)
(***************************************************************************)
Draw ==
    /\ pc = "idle"
    /\ (ShaderUniforms \ {"source", "exposure"}) \subseteq Bound
    /\ \E n \in 1..Len(Palette) : texel' = Palette[n]
    /\ \E e \in Exposures : exposure' = e
    /\ out_color' =
         main(texel', exposure', Uniform("gamma"), Uniform("Ldmax"), Uniform("Lwa"),
              Uniform("Lwmax"), Uniform("b"), Uniform("slope"), Uniform("start"))
    /\ pc' = "drawn"
    /\ UNCHANGED <<parameters, image, loc, i, j, dst, writes, color, progress,
                   delta, arg, ret, interleaved>>

\* the call returns (or its exception reaches the caller); its frame is gone
Return ==
    /\ pc \in {"processed", "process_thrown", "graphed", "graph_thrown", "drawn"}
    /\ pc' = "idle"
    /\ image' = NoImage
    /\ exposure' = 0
    /\ loc' = NoLocals
    /\ i' = 0
    /\ j' = 0
    /\ dst' = 0
    /\ writes' = << >>
    /\ color' = NoColor
    /\ progress' = 0
    /\ delta' = 0
    /\ arg' = 0
    /\ ret' = 0
    /\ texel' = NoColor
    /\ out_color' = NoColor
    /\ UNCHANGED <<parameters, interleaved>>

Next ==
    \/ SetParameters
    \/ EditValue
    \/ ProcessBegin
    \/ ProcessPixel
    \/ ProcessProgress
    \/ Graph
    \/ Draw
    \/ Return

Spec == Init /\ [][Next]_vars

(***************************************************************************)
(* The same operator with a second thread: while process is in its loop,   *)
(* the host edits a parameter or calls setParameters, at most              *)
(* MaxInterleaved times in a run.                                          *)
(***************************************************************************)
InLoop == pc \in {"pixel", "progress"}

InterleavedEditValue ==
    /\ InLoop
    /\ interleaved < MaxInterleaved
    /\ \E k \in Editable : \E v \in EditInputs[k] : editValue(k, v)
    /\ interleaved' = interleaved + 1
    /\ UNCHANGED <<pc, image, exposure, loc, i, j, dst, writes, color, progress,
                   delta, arg, ret, texel, out_color>>

InterleavedSetParameters ==
    /\ InLoop
    /\ interleaved < MaxInterleaved
    /\ \E img \in Images : setParameters(img)
    /\ interleaved' = interleaved + 1
    /\ UNCHANGED <<pc, image, exposure, loc, i, j, dst, writes, color, progress,
                   delta, arg, ret, texel, out_color>>

NextInterleaved ==
    \/ SetParameters
    \/ ProcessBegin
    \/ ProcessPixel
    \/ ProcessProgress
    \/ Return
    \/ InterleavedEditValue
    \/ InterleavedSetParameters

SpecInterleaved == Init /\ [][NextInterleaved]_vars

(***************************************************************************)
(* Properties.                                                             *)
(***************************************************************************)
Width == getSize(image)[1]
Height == getSize(image)[2]
InProcess == pc \in {"pixel", "progress", "processed"}

\* the pixels whose progress has been added
Counted == i * Width + j

RECURSIVE F32Sum(_, _)
F32Sum(d, k) == IF k = 0 THEN 0 ELSE F32Add(F32Sum(d, k - 1), d)

\* C1: a process or graph call on an operator on which setParameters was never
\* called (its map holds no Lwa) does not throw.
C1_NoThrowWithoutStatistics ==
    ("Lwa" \notin DOMAIN parameters) => pc \notin {"process_thrown", "graph_thrown"}

\* C2: process writes the destination offsets 0, 1, 2, ... in this order, each
\* once and none at or beyond 3*w*h; pixel (i, j) goes to 3*(i*w+j), +1, +2 as
\* R, G, B; when the call returns all 3*w*h offsets have been written.
C2_DestinationWrites ==
    InProcess =>
        /\ Len(writes) = 3 * (IF pc = "progress" THEN Counted + 1 ELSE Counted)
        /\ dst = Len(writes)
        /\ Len(writes) <= 3 * Width * Height
        /\ \A k \in 1..Len(writes) : writes[k].off = k - 1
        /\ pc = "processed" => Len(writes) = 3 * Width * Height
        /\ pc = "progress" =>
             \A n \in 1..3 :
                /\ writes[3 * (i * Width + j) + n].off = 3 * (i * Width + j) + (n - 1)
                /\ writes[3 * (i * Width + j) + n].val
                     = clamp(255 * color[n], 0, 255 * Scale) \div Scale
                /\ color[n] = map(ref(image, i, j)[n], exposure, loc.gamma, loc.Ldmax,
                                  loc.Lwa, loc.Lwmax, loc.b, loc.start, loc.slope)

C2_Witness ==
    /\ pc = "processed"
    /\ Width > 1
    /\ Height > 1
    /\ Len(writes) = 3 * Width * Height
    /\ \E k \in 1..Len(writes) : writes[k].val \notin {0, 255}

\* C3 as stated: after k pixels the progress sink equals k/(w*h).  The nearest
\* single to k/(w*h) is the most a float cell can hold of it.
C3_ProgressIsFraction ==
    (InProcess /\ Counted > 0) => progress = F32Div(Counted, Width * Height)

\* C3, amended: the sink is set to 0 before the first pixel and never
\* decreases; it changes once per pixel, right after the pixel's three bytes
\* are stored, by the single-precision addition of the single nearest to
\* 1/(w*h); after k pixels it is the k-fold rounded sum.
C3_ProgressSteps ==
    [][ /\ (pc = "idle" /\ pc' \in {"pixel", "process_thrown"}) =>
              progress' = 0
        /\ (pc = "pixel" /\ pc' = "progress") =>
              /\ progress' = progress
              /\ Len(writes') = Len(writes) + 3
        /\ pc = "progress" =>
              /\ writes' = writes
              /\ Len(writes) = 3 * (Counted + 1)
              /\ progress' = F32Round(progress + F32Div(1, Width * Height))
              /\ progress' >= progress
              /\ Counted' = Counted + 1
        /\ (pc' \in {"pixel", "progress", "processed"}) =>
              progress' = F32Sum(F32Div(1, Width' * Height'), Counted')
      ]_vars

C3_Witness ==
    /\ pc = "processed"
    /\ Counted = Width * Height
    /\ Counted >= 4
    /\ progress = F32Sum(F32Div(1, Width * Height), Counted)

\* C4: when process returns, the progress sink holds exactly 1.0.
C4_ProgressEndsAtOne == pc = "processed" => progress = F32One

\* C5: every uniform of the fragment shader other than source and exposure is
\* the shortLabel of an entry of parameters, and every key of parameters is
\* the name of a uniform.
C5_UniformsMatchParameters ==
    /\ \A u \in ShaderUniforms \ {"source", "exposure"} :
          \E k \in DOMAIN parameters : parameters[k].shortLabel = u
    /\ \A k \in DOMAIN parameters : k \in ShaderUniforms

\* C6: for the same sample, exposure and parameters the shader's output
\* channel equals the CPU result clamp(map(v, exposure, ...), 0, 1).
C6_ShaderEqualsCpu ==
    pc = "drawn" =>
        \A n \in 1..3 :
            out_color[n]
              = clamp(mapPixel(texel, exposure, readLocals(parameters))[n], 0, Scale)

\* C7 as stated: for a 1x1 gray image and exposure 1, process writes
\* round(clamp(graph(v), 0, 1) * 255) for each channel.
C7_ProcessRoundsGraph ==
    (/\ pc = "processed"
     /\ getSize(image) = <<1, 1>>
     /\ exposure = Scale
     /\ ref(image, 0, 0)[1] = ref(image, 0, 0)[2]
     /\ ref(image, 0, 0)[2] = ref(image, 0, 0)[3]) =>
        \A n \in 1..3 :
            writes[n].val
              = (255 * clamp(graph(parameters, ref(image, 0, 0)[n]), 0, Scale) + 500)
                  \div Scale

\* C7, amended: for a 1x1 gray image and exposure 1, process writes
\* clamp(graph(v), 0, 1) * 255 truncated to an integer for each channel.
C7_ProcessTruncatesGraph ==
    (/\ pc = "processed"
     /\ getSize(image) = <<1, 1>>
     /\ exposure = Scale
     /\ ref(image, 0, 0)[1] = ref(image, 0, 0)[2]
     /\ ref(image, 0, 0)[2] = ref(image, 0, 0)[3]) =>
        \A n \in 1..3 :
            writes[n].val
              = (255 * clamp(graph(parameters, ref(image, 0, 0)[n]), 0, Scale))
                  \div Scale

C7_Witness ==
    /\ pc = "processed"
    /\ getSize(image) = <<1, 1>>
    /\ exposure = Scale
    /\ ref(image, 0, 0)[1] = ref(image, 0, 0)[2]
    /\ ref(image, 0, 0)[2] = ref(image, 0, 0)[3]
    /\ Len(writes) = 3
    /\ graph(parameters, ref(image, 0, 0)[1]) \in 1..(Scale - 1)
    /\ (255 * graph(parameters, ref(image, 0, 0)[1])) % Scale >= 500

\* C8: the steps of process and graph leave parameters as it is; a
\* setParameters(image) step leaves every entry but Lwa and Lwmax as it is,
\* leaves the map with the seven keys, and sets Lwa and Lwmax to the two
\* statistics of that image.
C8_ParameterFrame ==
    [][ /\ (pc # "idle" \/ pc' # "idle") => parameters' = parameters
        /\ \A img \in Images :
              (pc = "idle" /\ setParameters(img)) =>
                 /\ \A k \in DOMAIN parameters \ {"Lwa", "Lwmax"} :
                       /\ k \in DOMAIN parameters'
                       /\ parameters'[k] = parameters[k]
                 /\ DOMAIN parameters' = Keys
                 /\ parameters'["Lwa"].value = getLogAverageLuminance(img)
                 /\ parameters'["Lwmax"].value = getMaximumLuminance(img)
      ]_vars

C8_Witness ==
    /\ pc = "processed"
    /\ DOMAIN parameters = Keys
    /\ parameters["Lwa"].value = Looks[2].logAvg
    /\ parameters["Lwmax"].value = Looks[2].maxLum
    /\ parameters["Ldmax"].value # 100 * Scale
    /\ image.look = 1

\* C9: a compressed value equal to start takes the linear branch, a value
\* above start the power branch, in the CPU map and in the shader's
\* gammaCorrect alike.
C9_BranchAtStart ==
    /\ pc = "progress" =>
          \A n \in 1..3 :
             LET value == compress(ref(image, i, j)[n], exposure, loc.Ldmax, loc.Lwa,
                                   loc.Lwmax, loc.b)
             IN  /\ value <= loc.start => color[n] = Mul(loc.slope, value)
                 /\ value > loc.start =>
                       color[n] = Pow(Mul(1099, value), Div(900, loc.gamma)) - 99
                 /\ gammaCorrect(value, loc.gamma, loc.start, loc.slope) = color[n]
    /\ pc = "drawn" =>
          \A n \in 1..3 :
             LET l == readLocals(parameters)
                 v == clamp(compress(texel[n], exposure, l.Ldmax, l.Lwa, l.Lwmax, l.b),
                            0, Scale)
             IN  /\ v <= l.start => out_color[n] = Mul(l.slope, v)
                 /\ v > l.start =>
                       out_color[n] = Pow(Mul(1099, v), Div(900, l.gamma)) - 99
                 /\ mapGamma(v, l.gamma, l.start, l.slope) = out_color[n]

C9_Witness ==
    /\ pc = "progress"
    /\ loc.start > 0
    /\ compress(ref(image, i, j)[1], exposure, loc.Ldmax, loc.Lwa, loc.Lwmax, loc.b)
         = loc.start
    /\ color[1] = Mul(loc.slope, loc.start)

\* C10: process reads the seven values once, when it starts; the locals stay
\* as read for the whole call and every pixel's bytes are computed from them,
\* whatever is assigned to parameters while the loop runs.
C10_OneParameterSet ==
    [][ /\ (pc = "idle" /\ pc' = "pixel") => loc' = readLocals(parameters)
        /\ (InLoop /\ pc' # "idle") =>
              /\ loc' = loc
              /\ Len(writes') >= Len(writes)
              /\ \A k \in 1..Len(writes) : writes'[k] = writes[k]
        /\ (pc = "pixel" /\ pc' = "progress") =>
              \A n \in 1..3 :
                 writes'[Len(writes) + n].val
                   = clamp(255 * map(ref(image, i, j)[n], exposure, loc.gamma,
                                     loc.Ldmax, loc.Lwa, loc.Lwmax, loc.b, loc.start,
                                     loc.slope),
                           0, 255 * Scale) \div Scale
      ]_vars

C10_Witness ==
    /\ pc = "processed"
    /\ Len(writes) >= 6
    /\ loc # readLocals(parameters)
    /\ \E n \in 1..3 :
          writes[Len(writes) - 3 + n].val
            # quantize(mapPixel(ref(image, Height - 1, Width - 1), exposure,
                                readLocals(parameters))[n])

====
